---- MODULE Spec2Model ----
(***************************************************************************)
(* Beer tap dispenser: the DispenserManager of                             *)
(* src/managers/dispenserManager.js and the spend calculator of            *)
(* src/utils/utils.js, and the routes of the Express router that answer    *)
(* HTTP requests by calling the manager.                                   *)
(*                                                                         *)
(* Units.  A timestamp is a number of milliseconds since the epoch (what   *)
(* Date.getTime() gives).  A flow volume is held in tenths of a litre per  *)
(* second (5 stands for 0.5 l/s).  A monetary amount is held in hundredths *)
(* (cents), which is the grain Number(x.toFixed(2)) leaves.  Arithmetic is *)
(* exact; the binary rounding error of JavaScript doubles is not modelled. *)
(***************************************************************************)
EXTENDS Integers, Sequences, FiniteSets, TLC

VARIABLES
    dispensers,              \* this.dispensers: the array of dispenser objects
    statusChanges,           \* this.statusChanges: Map id -> array of usage periods
    totalSpentPerDispenser,  \* this.totalSpentPerDispenser: Map id -> running total
    now,                     \* the wall clock, what new Date() reads
    result,                  \* what the last call returned or threw
    writes,                  \* how many calls have changed the manager so far
    response                 \* the HTTP response to the last request, if any

vars == <<dispensers, statusChanges, totalSpentPerDispenser, now, result, writes,
          response>>

(* ------------------------------ bounds -------------------------------- *)

\* the store holds at most MaxDispensers dispensers
MaxDispensers == 2
\* timestamps and clock readings are 0 .. MaxTime milliseconds
MaxTime == 1
\* at most MaxWrites calls change the manager (its store, ledgers or totals)
MaxWrites == 5
\* behind the router, at most MaxRequests requests change the manager
MaxRequests == 3

(* ------------------------- values and inputs -------------------------- *)

\* DispenserState, dispenserManager.js:7-10
OPEN == "open"
CLOSE == "close"
DispenserState == {OPEN, CLOSE}

\* messages.js
INVALID_FLOW == "Flow volume should be a positive number."
DISPENSER_NOT_FOUND == "Dispenser not found"
DISPENSER_ALREADY_IN_DESIRED_STATE == "Dispenser already in the desired state"
INVALID_DISPENSER_STATUS == "Invalid dispenser state. Status must be either \"open\" or \"close\"."
INVALID_DATE_FORMAT == "Invalid date format. Please use the ISO 8601 format."
FLOW_VOLUME_REQUIRED == "Flow volume is required"
FLOW_VOLUME_MUST_BE_NUMBER == "Flow volume must be a number"
FLOW_VOLUME_POSITIVE == "Flow volume must be a positive number"
INTERNAL_SERVER_ERROR == "Internal server error"
STATUS_UPDATED_AT_FIELDS_REQUIRED == "Status and updated_at fields are required"
INVALID_DATE_ORDER == "closed_at must be greater than opened_at and opened_at must be greater than the previous closed_at"

\* null where a timestamp may stand (closed_at: null); timestamps are >= 0
Null == -1
\* a monetary amount may be negative, so a field that holds an amount or null
\* (total_spent) holds <<>> for null and <<cents>> for a number
NullAmount == <<>>
Amount(cents) == <<cents>>
\* new Date(x) for an x that is no date: its time value is NaN
InvalidDate == -2
\* uuidv4() values, one more than the store may hold so that an unknown id exists
Ids == 1 .. (MaxDispensers + 1)
\* valid client timestamps and wall clock readings, in milliseconds
Times == 0 .. MaxTime
\* what a caller may pass as updatedAt
DateInputs == Times \cup {InvalidDate}
\* what a caller may pass as state
StateInputs == {OPEN, CLOSE, "INVALID"}
\* what a caller may pass as flow_volume: a JS value with its typeof.
\* 5 is 0.5 l/s, -10 is -1 l/s; the string 'abc' is held with value 0.
FlowInputs == {[type |-> "number", val |-> 5],
               [type |-> "number", val |-> 0], [type |-> "number", val |-> -10],
               [type |-> "string", val |-> 0]}

\* a field the request body does not carry
Undefined == [type |-> "undefined", val |-> 0]
\* req.body.flow_volume of POST /dispenser
FlowBodyInputs == FlowInputs \cup {Undefined}
\* req.body.status of PUT /dispenser/:id/status
StatusBodyInputs == {[type |-> "string", val |-> s] : s \in StateInputs} \cup {Undefined}
\* req.body.updated_at of PUT /dispenser/:id/status: a string, held with the
\* time value new Date(updated_at) has
DateBodyInputs == {[type |-> "string", val |-> t] : t \in DateInputs} \cup {Undefined}

\* (x) / 1000 in calculateTotalSpent
MsPerSecond == 1000
\* PRICE_PER_LITRE of constants/constants.js, in cents
PRICE_PER_LITRE == 1225

(* --------------------------- pure functions --------------------------- *)

Abs(x) == IF x < 0 THEN 0 - x ELSE x

\* new Date(x).getTime(): new Date(null) is the epoch
\* (faulty variant: null read as the present time, as new Date() is)
DateOfNullIsNow(x) == IF x = Null THEN now ELSE x
DateOf(x) == IF x = Null THEN 0 ELSE x

\* isNaN(Date.parse(updatedAt))
\* (faulty variant: the date is not validated)
isNaNDateNever(updatedAt) == FALSE
isNaNDate(updatedAt) == updatedAt = InvalidDate

\* Number((num/den).toFixed(2)) for an amount of num/den cents, den > 0:
\* the nearest integer number of cents, a tie going away from zero
\* (faulty variant: the amount cut down to a whole cent, as Math.floor would)
toFixed2Floor(num, den) == num \div den
toFixed2(num, den) ==
    IF num < 0 THEN 0 - ((2 * (0 - num) + den) \div (2 * den))
    ELSE (2 * num + den) \div (2 * den)

\* calculateTotalSpent, utils.js:3-7
\* (faulty variant: the two dates subtracted the other way round)
calculateTotalSpentBackwards(openedAt, closedAt, flowVolume) ==
    toFixed2((DateOf(openedAt) - DateOf(closedAt)) * flowVolume * PRICE_PER_LITRE,
             MsPerSecond * 10)
calculateTotalSpent(openedAt, closedAt, flowVolume) ==
    LET msOpen == DateOf(closedAt) - DateOf(openedAt)
    \* flowVolume is in tenths of a litre, hence the 10 of the denominator
    IN  toFixed2(msOpen * flowVolume * PRICE_PER_LITRE, MsPerSecond * 10)

\* this.dispensers.find(d => d.id === id): the index of the first dispenser
\* from index i on that has the id, 0 if there is none
RECURSIVE findFrom(_, _)
findFrom(id, i) ==
    IF i > Len(dispensers) THEN 0
    ELSE IF dispensers[i].id = id THEN i
    ELSE findFrom(id, i + 1)

\* (faulty variant: an id that matches nothing yields the first dispenser)
findOrFirst(id) ==
    IF findFrom(id, 1) = 0 /\ dispensers # <<>> THEN 1 ELSE findFrom(id, 1)
find(id) == findFrom(id, 1)

\* uuidv4(): an id no dispenser of the store has.  Ids are only ever compared
\* for equality, so the least unused one stands for any fresh one.
\* (faulty variant: the id of the first dispenser is handed out again)
uuidv4Reused == IF dispensers = <<>> THEN 1 ELSE dispensers[1].id
uuidv4 ==
    CHOOSE id \in Ids :
        /\ \A i \in 1 .. Len(dispensers) : dispensers[i].id # id
        /\ \A other \in Ids :
              (\A i \in 1 .. Len(dispensers) : dispensers[i].id # other) => id <= other

\* typeof flow_volume !== 'number' || flow_volume <= 0
\* (faulty variant: only the type is tested)
invalidFlowTypeOnly(flow_volume) == flow_volume.type # "number"
invalidFlow(flow_volume) == flow_volume.type # "number" \/ flow_volume.val <= 0

\* this.totalSpentPerDispenser.get(id) || 0
totalOf(id) ==
    IF id \in DOMAIN totalSpentPerDispenser THEN totalSpentPerDispenser[id] ELSE 0

\* updateTotalSpentPerDispenser: the map after the call
updateTotalSpentPerDispenser(id, spentAmount) ==
    [k \in DOMAIN totalSpentPerDispenser \cup {id} |->
        IF k = id THEN totalOf(id) + spentAmount ELSE totalSpentPerDispenser[k]]

\* the last element of a non-empty array
Last(s) == s[Len(s)]

\* the record of the call just made.  outcome is "ok", "already" (the
\* {success: false} result) or the message of the Error thrown; dispenser is
\* the dispenser object returned; amount and usages are what getSpending returns.
Call(op, outcome, dispenser, amount, usages) ==
    [op |-> op, outcome |-> outcome, dispenser |-> dispenser,
     amount |-> amount, usages |-> usages]

NoDispenser == [id |-> Null, flow_volume |-> 0, state |-> "", updated_at |-> Null]

\* no manager method was called
NoCall == Call("none", "", NoDispenser, NullAmount, <<>>)

\* res.status(status) with its body: json({error}), json({message}), send(),
\* json({id, flow_volume}) or json(spending), the value getSpending returned
Response(route, status, kind, text, id, flow_volume) ==
    [route |-> route, status |-> status, kind |-> kind, text |-> text,
     id |-> id, flow_volume |-> flow_volume]

\* the manager was called directly, not through a route
NoResponse == Response("", 0, "", "", Null, 0)

(* ------------------------------- Init --------------------------------- *)

\* constructor, dispenserManager.js:18-22
Init ==
    /\ dispensers = <<>>
    /\ statusChanges = <<>>
    /\ totalSpentPerDispenser = <<>>
    /\ now = 0
    /\ result = Call("new", "ok", NoDispenser, NullAmount, <<>>)
    /\ writes = 0
    /\ response = NoResponse

(* ------------------------------ actions ------------------------------- *)

\* the wall clock (new Date()) advances between calls
Tick ==
    /\ now < MaxTime
    /\ now' = now + 1
    /\ result' = Call("tick", "ok", NoDispenser, NullAmount, <<>>)
    /\ UNCHANGED <<dispensers, statusChanges, totalSpentPerDispenser, writes>>

\* createDispenser, dispenserManager.js:36-50
createDispenser(flow_volume) ==
    LET dispenser == [id |-> uuidv4, flow_volume |-> flow_volume.val,
                      state |-> CLOSE, updated_at |-> now]
    IN
    IF invalidFlow(flow_volume)
    THEN /\ result' = Call("createDispenser", INVALID_FLOW, NoDispenser, NullAmount, <<>>)
         /\ UNCHANGED <<dispensers, statusChanges, totalSpentPerDispenser, now, writes>>
    ELSE /\ Len(dispensers) < MaxDispensers
         /\ writes < MaxWrites
         /\ writes' = writes + 1
         /\ dispensers' = Append(dispensers, dispenser)
         /\ result' = Call("createDispenser", "ok", dispenser, NullAmount, <<>>)
         /\ UNCHANGED <<statusChanges, totalSpentPerDispenser, now>>

\* state !== DispenserState.OPEN && state !== DispenserState.CLOSE
invalidState(state) == state # OPEN /\ state # CLOSE

\* dispenser.state === state
\* (faulty variant: only a repeated close is recognised)
sameStateCloseOnly(dispenser, state) == dispenser.state = state /\ state = CLOSE
sameState(dispenser, state) == dispenser.state = state

\* new Date(updatedAt) <= new Date(boundary)
\* (faulty variant: < for <=, an equal timestamp is let through)
notAfterStrict(updatedAt, boundary) == DateOf(updatedAt) < DateOf(boundary)
notAfter(updatedAt, boundary) == DateOf(updatedAt) <= DateOf(boundary)

\* dispenser.state = state; dispenser.updated_at = updatedAt (lines 88-89)
\* (faulty variant: every dispenser of the store is assigned)
setStateAll(i, state, updatedAt) ==
    [k \in 1 .. Len(dispensers) |->
        [dispensers[k] EXCEPT !.state = state, !.updated_at = updatedAt]]
\* (faulty variant: updated_at is left as it was)
setStateOnly(i, state, updatedAt) ==
    [dispensers EXCEPT ![i] = [@ EXCEPT !.state = state]]
setState(i, state, updatedAt) ==
    [dispensers EXCEPT ![i] = [@ EXCEPT !.state = state, !.updated_at = updatedAt]]

\* const statusChange = { opened_at, closed_at: null, flow_volume,
\* total_spent: null }, dispenserManager.js:99-104
\* (faulty variant: the period starts with a total_spent of 0)
newStatusChangeZeroSpent(flow_volume, updatedAt) ==
    [opened_at |-> updatedAt, closed_at |-> Null, flow_volume |-> flow_volume,
     total_spent |-> Amount(0)]
newStatusChange(flow_volume, updatedAt) ==
    [opened_at |-> updatedAt, closed_at |-> Null, flow_volume |-> flow_volume,
     total_spent |-> NullAmount]

\* the OPEN branch, dispenserManager.js:98-116: the outcome and the new ledger
openBranch(id, i, updatedAt) ==
    LET statusChange == newStatusChange(dispensers[i].flow_volume, updatedAt)
    IN
    IF id \in DOMAIN statusChanges
    THEN IF notAfter(updatedAt, Last(statusChanges[id]).closed_at)
         THEN [outcome |-> INVALID_DATE_ORDER, changes |-> statusChanges,
               totals |-> totalSpentPerDispenser]
         ELSE [outcome |-> "ok",
               changes |-> [statusChanges EXCEPT ![id] = Append(@, statusChange)],
               totals |-> totalSpentPerDispenser]
    ELSE [outcome |-> "ok",
          changes |-> [k \in DOMAIN statusChanges \cup {id} |->
                          IF k = id THEN <<statusChange>> ELSE statusChanges[k]],
          totals |-> totalSpentPerDispenser]

\* the CLOSE branch, dispenserManager.js:117-133: the outcome and the new ledger
closeBranch(id, i, updatedAt) ==
    IF id \in DOMAIN statusChanges
    THEN LET lastStatusChange == Last(statusChanges[id])
             total_spent == calculateTotalSpent(lastStatusChange.opened_at, updatedAt,
                                                lastStatusChange.flow_volume)
         IN
         IF notAfter(updatedAt, lastStatusChange.opened_at)
         THEN [outcome |-> INVALID_DATE_ORDER, changes |-> statusChanges,
               totals |-> totalSpentPerDispenser]
         ELSE [outcome |-> "ok",
               changes |-> [statusChanges EXCEPT ![id][Len(statusChanges[id])] =
                               [@ EXCEPT !.closed_at = updatedAt,
                                         !.total_spent = Amount(total_spent)]],
               totals |-> updateTotalSpentPerDispenser(id, total_spent)]
    ELSE [outcome |-> "ok", changes |-> statusChanges,
          totals |-> totalSpentPerDispenser]

\* the store as a throw of lines 70-82 leaves it: the three checks come
\* before the assignments of lines 88-89
\* (faulty variant: the dispenser is assigned before the checks)
storeAtThrowAssigned(i, state, updatedAt) ==
    IF i = 0 THEN dispensers ELSE setState(i, state, updatedAt)
storeAtThrow(i, state, updatedAt) == dispensers

\* changeDispenserStatus, dispenserManager.js:68-136
changeDispenserStatus(id, state, updatedAt) ==
    LET i == find(id)
        Throw(message) ==
            /\ result' = Call("changeDispenserStatus", message, NoDispenser, NullAmount, <<>>)
            /\ dispensers' = storeAtThrow(i, state, updatedAt)
            /\ UNCHANGED <<statusChanges, totalSpentPerDispenser, writes>>
    IN
    /\ now' = now
    /\ IF i = 0 THEN Throw(DISPENSER_NOT_FOUND)
       ELSE IF invalidState(state) THEN Throw(INVALID_DISPENSER_STATUS)
       ELSE IF isNaNDate(updatedAt) THEN Throw(INVALID_DATE_FORMAT)
       ELSE IF sameState(dispensers[i], state)
       THEN /\ result' = Call("changeDispenserStatus", "already", NoDispenser, NullAmount, <<>>)
            /\ UNCHANGED <<dispensers, statusChanges, totalSpentPerDispenser, writes>>
       ELSE LET b == IF state = OPEN THEN openBranch(id, i, updatedAt)
                                     ELSE closeBranch(id, i, updatedAt)
            IN  /\ writes < MaxWrites
                /\ writes' = writes + 1
                /\ dispensers' = setState(i, state, updatedAt)
                /\ statusChanges' = b.changes
                /\ totalSpentPerDispenser' = b.totals
                /\ result' = Call("changeDispenserStatus", b.outcome,
                                  IF b.outcome = "ok" THEN dispensers'[i] ELSE NoDispenser,
                                  NullAmount, <<>>)

\* !lastStatusChange.closed_at
\* (faulty variant: a closed period is taken for an open one)
falsyAlways(x) == TRUE
falsy(x) == x = Null

\* { amount: 0, usages: [] }, what getSpending returns when the dispenser has
\* no ledger, dispenserManager.js:158-161
\* (faulty variant: no amount at all)
noSpendingNoAmount == [amount |-> NullAmount, usages |-> <<>>]
noSpending == [amount |-> Amount(0), usages |-> <<>>]

\* lastStatusChange.total_spent = total_spent, dispenserManager.js:169
\* (faulty variant: the estimate also closes the period at the clock reading)
estimateClosing(lastStatusChange, total_spent) ==
    [lastStatusChange EXCEPT !.total_spent = Amount(total_spent), !.closed_at = now]
estimate(lastStatusChange, total_spent) ==
    [lastStatusChange EXCEPT !.total_spent = Amount(total_spent)]

\* getSpending, dispenserManager.js:151-179
getSpending(id) ==
    LET i == find(id)
        R(outcome, amount, usages) ==
            Call("getSpending", outcome, NoDispenser, amount, usages)
    IN
    /\ now' = now
    /\ dispensers' = dispensers
    /\ IF i = 0
       THEN /\ result' = R(DISPENSER_NOT_FOUND, NullAmount, <<>>)
            /\ UNCHANGED <<statusChanges, totalSpentPerDispenser, writes>>
       ELSE IF id \notin DOMAIN statusChanges
       THEN /\ result' = R("ok", noSpending.amount, noSpending.usages)
            /\ UNCHANGED <<statusChanges, totalSpentPerDispenser, writes>>
       ELSE LET spending == statusChanges[id]
                lastStatusChange == Last(spending)
                total_spent == calculateTotalSpent(lastStatusChange.opened_at, now,
                                                   lastStatusChange.flow_volume)
            IN  IF falsy(lastStatusChange.closed_at)
                THEN /\ writes < MaxWrites
                     /\ writes' = writes + 1
                     /\ statusChanges' = [statusChanges EXCEPT
                            ![id][Len(spending)] = estimate(lastStatusChange, total_spent)]
                     /\ totalSpentPerDispenser' = updateTotalSpentPerDispenser(id, total_spent)
                     /\ result' = R("ok", Amount(totalSpentPerDispenser'[id]),
                                     statusChanges'[id])
                ELSE /\ UNCHANGED <<statusChanges, totalSpentPerDispenser, writes>>
                     /\ result' = R("ok", Amount(totalOf(id)), spending)

(* ------------------------------ routes -------------------------------- *)

\* !x for a field of the request body: undefined and 0 are falsy, the
\* non-empty strings and the other numbers are not
not(x) == x.type = "undefined" \/ (x.type = "number" /\ x.val = 0)

\* res.status(status).json({ error })
Error(route, status, text) == Response(route, status, "error", text, Null, 0)

POST == "POST /dispenser"
PUT == "PUT /dispenser/:id/status"
GET == "GET /dispenser/:id/spending"

\* the route answered before it called the manager
Reject(route, text) ==
    /\ response' = Error(route, 400, text)
    /\ result' = NoCall
    /\ UNCHANGED <<dispensers, statusChanges, totalSpentPerDispenser, now, writes>>

\* res.status(200).json({ id: dispenser.id, flow_volume: dispenser.flow_volume })
createdNoId(dispenser) == Response(POST, 200, "dispenser", "", Null, dispenser.flow_volume)
created(dispenser) ==
    Response(POST, 200, "dispenser", "", dispenser.id, dispenser.flow_volume)

\* router.post('/dispenser')
postDispenser(flow_volume) ==
    IF not(flow_volume) THEN Reject(POST, FLOW_VOLUME_REQUIRED)
    ELSE IF flow_volume.type # "number" THEN Reject(POST, FLOW_VOLUME_MUST_BE_NUMBER)
    ELSE IF flow_volume.val <= 0 THEN Reject(POST, FLOW_VOLUME_POSITIVE)
    ELSE /\ createDispenser(flow_volume)
         /\ response' = IF result'.outcome = "ok" THEN created(result'.dispenser)
                        ELSE IF result'.outcome = INVALID_FLOW
                        THEN Error(POST, 400, result'.outcome)
                        ELSE Error(POST, 500, INTERNAL_SERVER_ERROR)

\* the catch of router.put('/dispenser/:id/status')
\* (faulty variant: an unknown dispenser is not told apart from an unexpected error)
putCatchNoNotFound(message) ==
    IF message = INVALID_DISPENSER_STATUS THEN Error(PUT, 400, message)
    ELSE IF message = INVALID_DATE_FORMAT THEN Error(PUT, 400, message)
    ELSE Error(PUT, 500, INTERNAL_SERVER_ERROR)
putCatch(message) ==
    IF message = INVALID_DISPENSER_STATUS THEN Error(PUT, 400, message)
    ELSE IF message = INVALID_DATE_FORMAT THEN Error(PUT, 400, message)
    ELSE IF message = DISPENSER_NOT_FOUND THEN Error(PUT, 404, message)
    ELSE Error(PUT, 500, INTERNAL_SERVER_ERROR)

\* router.put('/dispenser/:id/status')
putStatus(id, status, updated_at) ==
    IF not(status) \/ not(updated_at) THEN Reject(PUT, STATUS_UPDATED_AT_FIELDS_REQUIRED)
    ELSE /\ changeDispenserStatus(id, status.val, updated_at.val)
         /\ response' =
                IF result'.outcome = "already"
                THEN Response(PUT, 409, "message", DISPENSER_ALREADY_IN_DESIRED_STATE, Null, 0)
                ELSE IF result'.outcome = "ok"
                THEN Response(PUT, 202, "empty", "", Null, 0)
                ELSE putCatch(result'.outcome)

\* router.get('/dispenser/:id/spending'); the body of the 200 is what the
\* manager returned, result'.amount and result'.usages
getSpendingRoute(id) ==
    /\ getSpending(id)
    /\ response' =
           IF result'.outcome = "ok" THEN Response(GET, 200, "spending", "", Null, 0)
           ELSE IF result'.outcome = DISPENSER_NOT_FOUND
           THEN Error(GET, 404, result'.outcome)
           ELSE IF result'.outcome = INVALID_DISPENSER_STATUS
           THEN Error(GET, 400, result'.outcome)
           ELSE Error(GET, 500, INTERNAL_SERVER_ERROR)

(* --------------------------- specifications --------------------------- *)

\* the manager called directly, as the unit tests call it
Next ==
    \/ Tick /\ response' = NoResponse
    \/ \E f \in FlowInputs : createDispenser(f) /\ response' = NoResponse
    \/ \E id \in Ids, s \in StateInputs, t \in DateInputs :
          changeDispenserStatus(id, s, t) /\ response' = NoResponse
    \/ \E id \in Ids : getSpending(id) /\ response' = NoResponse

Spec == Init /\ [][Next]_vars

\* the manager behind the router, as the application runs it
NextApi ==
    \/ Tick /\ response' = NoResponse
    \/ \E f \in FlowBodyInputs : postDispenser(f) /\ writes' <= MaxRequests
    \/ \E id \in Ids, s \in StatusBodyInputs, t \in DateBodyInputs :
          putStatus(id, s, t) /\ writes' <= MaxRequests
    \/ \E id \in Ids : getSpendingRoute(id) /\ writes' <= MaxRequests

SpecApi == Init /\ [][NextApi]_vars

(* ------------------------------ claims -------------------------------- *)

\* the dispenser of the store that has this id (the id is in the store)
byId(id) == dispensers[find(id)]

\* the ids of the store
storeIds == {dispensers[i].id : i \in 1 .. Len(dispensers)}

\* c is num/den rounded to a nearest integer, den > 0
IsRounded(c, num, den) == 2 * Abs(c * den - num) <= den

\* C1: createDispenser called with a numeric flow_volume > 0 returns a dispenser
\* whose state is CLOSE, whose flow_volume is the given value and whose id is
\* the id of no dispenser already in the store, and that dispenser is appended
\* as the last element of the store.
C1_CreateAppendsFreshClosedDispenser ==
    [][\A f \in FlowInputs :
        (f.type = "number" /\ f.val > 0 /\ createDispenser(f)) =>
            /\ result'.outcome = "ok"
            /\ result'.dispenser.state = CLOSE
            /\ result'.dispenser.flow_volume = f.val
            /\ result'.dispenser.id \notin storeIds
            /\ dispensers' = Append(dispensers, result'.dispenser)]_vars

\* a second dispenser has just been created
C1_Witness ==
    /\ result.op = "createDispenser" /\ result.outcome = "ok"
    /\ Len(dispensers) = 2
    /\ dispensers[2] = result.dispenser

C3_SameStateChangesNothing ==
    [][result'.op = "changeDispenserStatus" =>
        \A id \in Ids, t \in Times :
            (find(id) # 0 /\ changeDispenserStatus(id, byId(id).state, t)) =>
                /\ result'.outcome = "already"
                /\ UNCHANGED <<dispensers, statusChanges, totalSpentPerDispenser>>]_vars

\* an open was just requested of a dispenser that is open
C3_Witness ==
    /\ result.op = "changeDispenserStatus" /\ result.outcome = "already"
    /\ Len(dispensers) > 0
    /\ \A i \in 1 .. Len(dispensers) : dispensers[i].state = OPEN

\* C4: a dispenser's state changes from CLOSE to OPEN or from OPEN to CLOSE
\* only in a changeDispenserStatus call whose timestamp is strictly greater
\* than the relevant prior boundary (the last period's closed_at when opening,
\* the current period's opened_at when closing); a call whose timestamp is not
\* strictly greater leaves the state as it was.  The timestamp of the call
\* that changes the state is the updated_at it leaves (lines 88-89).
C4_StateChangesOnlyAfterBoundary ==
    [][\A i \in 1 .. Len(dispensers) :
        dispensers'[i].state # dispensers[i].state =>
            LET id == dispensers[i].id
                t == dispensers'[i].updated_at
            IN  id \in DOMAIN statusChanges =>
                    LET last == Last(statusChanges[id])
                    IN  IF dispensers'[i].state = OPEN
                        THEN last.closed_at # Null => t > last.closed_at
                        ELSE t > last.opened_at]_vars

\* C5: for an OPEN dispenser, changeDispenserStatus(id, CLOSE, t) with t less
\* than or equal to the opened_at of the dispenser's last usage period (which
\* exists) fails with InvalidDateOrder, and the usage periods and the running
\* totals are unchanged by the failed call.
C5_CloseNotAfterOpenFails ==
    [][result'.op = "changeDispenserStatus" =>
        \A id \in Ids, t \in Times :
            (find(id) # 0 /\ byId(id).state = OPEN
                /\ changeDispenserStatus(id, CLOSE, t)) =>
                /\ id \in DOMAIN statusChanges
                /\ t <= Last(statusChanges[id]).opened_at =>
                      /\ result'.outcome = INVALID_DATE_ORDER
                      /\ UNCHANGED <<statusChanges, totalSpentPerDispenser>>]_vars

\* a close has just failed on the date order: the period it was to close is
\* still open and the timestamp passed is not after its opened_at
C5_Witness ==
    /\ result.op = "changeDispenserStatus" /\ result.outcome = INVALID_DATE_ORDER
    /\ \E i \in 1 .. Len(dispensers) :
          /\ dispensers[i].state = CLOSE
          /\ dispensers[i].id \in DOMAIN statusChanges
          /\ Last(statusChanges[dispensers[i].id]).closed_at = Null
          /\ dispensers[i].updated_at = Last(statusChanges[dispensers[i].id]).opened_at

\* C6: for a CLOSE dispenser that has at least one usage period,
\* changeDispenserStatus(id, OPEN, t) with t less than or equal to the
\* closed_at of the last usage period fails with InvalidDateOrder and appends
\* no usage period.
C6_OpenNotAfterCloseFails ==
    [][result'.op = "changeDispenserStatus" =>
        \A id \in Ids, t \in Times :
            (/\ find(id) # 0 /\ byId(id).state = CLOSE
             /\ id \in DOMAIN statusChanges
             /\ Last(statusChanges[id]).closed_at # Null
             /\ t <= Last(statusChanges[id]).closed_at
             /\ changeDispenserStatus(id, OPEN, t)) =>
                /\ result'.outcome = INVALID_DATE_ORDER
                /\ statusChanges' = statusChanges]_vars

\* an open has just failed on the date order: the last period is closed and
\* the timestamp passed is its closed_at
C6_Witness ==
    /\ result.op = "changeDispenserStatus" /\ result.outcome = INVALID_DATE_ORDER
    /\ \E i \in 1 .. Len(dispensers) :
          /\ dispensers[i].state = OPEN
          /\ dispensers[i].id \in DOMAIN statusChanges
          /\ Last(statusChanges[dispensers[i].id]).closed_at # Null
          /\ dispensers[i].updated_at = Last(statusChanges[dispensers[i].id]).closed_at

\* C7: in every reachable state and for every dispenser, at most one usage
\* period has no closed_at, and if there is one it is the last of the sequence.
C7_OnlyLastPeriodOpen ==
    \A id \in DOMAIN statusChanges :
        \A k \in 1 .. Len(statusChanges[id]) :
            statusChanges[id][k].closed_at = Null => k = Len(statusChanges[id])

\* C8: in every reachable state and for every dispenser, for every pair of
\* consecutive periods the later period's opened_at is strictly after the
\* earlier period's closed_at, which is present.
C8_PeriodsStrictlyOrdered ==
    \A id \in DOMAIN statusChanges :
        \A k \in 1 .. (Len(statusChanges[id]) - 1) :
            /\ statusChanges[id][k].closed_at # Null
            /\ statusChanges[id][k + 1].opened_at > statusChanges[id][k].closed_at

\* C9: after a successful changeDispenserStatus(id, CLOSE, t), the dispenser's
\* last usage period has closed_at = t and a total_spent that is the elapsed
\* seconds between its opened_at and t, times its flow_volume, times the price
\* per litre, rounded to 2 decimal places.  In cents, with milliseconds and
\* tenths of a litre: (t - opened_at) * flow_volume * PRICE_PER_LITRE / 10000.
C9_CloseSetsRoundedSpend ==
    [][(result'.op = "changeDispenserStatus" /\ result'.outcome = "ok") =>
        \A id \in Ids, t \in Times :
            changeDispenserStatus(id, CLOSE, t) =>
                /\ id \in DOMAIN statusChanges'
                /\ LET p == Last(statusChanges'[id])
                   IN  /\ p.closed_at = t
                       /\ p.total_spent # NullAmount
                       /\ IsRounded(p.total_spent[1],
                                    (t - p.opened_at) * p.flow_volume * PRICE_PER_LITRE,
                                    MsPerSecond * 10)]_vars

\* a close has just succeeded and the period's spend is not zero
C9_Witness ==
    /\ result.op = "changeDispenserStatus" /\ result.outcome = "ok"
    /\ result.dispenser.state = CLOSE
    /\ result.dispenser.id \in DOMAIN statusChanges
    /\ Last(statusChanges[result.dispenser.id]).closed_at = result.dispenser.updated_at
    /\ Last(statusChanges[result.dispenser.id]).total_spent[1] > 0

\* the sum of total_spent over a sequence of periods, an absent one counting 0
RECURSIVE sumSpent(_)
sumSpent(usages) ==
    IF usages = <<>> THEN 0
    ELSE (IF Last(usages).total_spent = NullAmount THEN 0
          ELSE Last(usages).total_spent[1])
         + sumSpent(SubSeq(usages, 1, Len(usages) - 1))

\* C10: after any sequence of createDispenser, changeDispenserStatus and
\* getSpending calls, the amount returned by getSpending(id) is the sum of
\* total_spent over the usage periods returned in the same result.
C10_AmountIsSumOfUsages ==
    (result.op = "getSpending" /\ result.outcome = "ok") =>
        result.amount = Amount(sumSpent(result.usages))

(* C11: getSpending for a dispenser of the store that has never been    *)
(* opened, so that it has no ledger, returns amount 0 and no usages.     *)
C11_NeverOpenedSpendsNothing ==
    [][result'.op = "getSpending" =>
        \A id \in Ids :
            (find(id) # 0 /\ id \notin DOMAIN statusChanges /\ getSpending(id)) =>
                /\ result'.outcome = "ok"
                /\ result'.amount = Amount(0)
                /\ result'.usages = <<>>
                /\ UNCHANGED <<dispensers, statusChanges, totalSpentPerDispenser>>]_vars

\* getSpending has answered for a never opened dispenser while the other
\* dispenser of the store has a ledger
C11_Witness ==
    /\ result.op = "getSpending" /\ result.outcome = "ok" /\ result.usages = <<>>
    /\ Len(dispensers) = 2 /\ DOMAIN statusChanges # {}

(* C12: for an id that is not in the store, changeDispenserStatus,       *)
(* whatever state and timestamp it is given, and getSpending both fail   *)
(* with DISPENSER_NOT_FOUND: no step that ends otherwise is a step of    *)
(* such a call.                                                          *)
C12_UnknownIdIsNotFound ==
    [][(/\ result'.op \in {"changeDispenserStatus", "getSpending"}
        /\ result'.outcome # DISPENSER_NOT_FOUND) =>
            \A id \in Ids \ storeIds :
                /\ \A s \in StateInputs, t \in DateInputs :
                       ~changeDispenserStatus(id, s, t)
                /\ ~getSpending(id)]_vars

\* a call has failed for an unknown id while the store holds dispensers
C12_Witness ==
    /\ result.op = "changeDispenserStatus" /\ result.outcome = DISPENSER_NOT_FOUND
    /\ Len(dispensers) = MaxDispensers

(* C13: getSpending for a dispenser whose last period is open does not  *)
(* close it: the period still has no closed_at, the ledger has as many   *)
(* periods as before, and the dispenser's state and updated_at are as    *)
(* before.                                                               *)
C13_GetSpendingDoesNotClose ==
    [][result'.op = "getSpending" =>
        \A id \in Ids :
            (/\ find(id) # 0
             /\ id \in DOMAIN statusChanges
             /\ Last(statusChanges[id]).closed_at = Null
             /\ getSpending(id)) =>
                /\ Last(statusChanges'[id]).closed_at = Null
                /\ Last(result'.usages).closed_at = Null
                /\ Len(statusChanges'[id]) = Len(statusChanges[id])
                /\ Len(result'.usages) = Len(statusChanges[id])
                /\ dispensers'[find(id)].state = byId(id).state
                /\ dispensers'[find(id)].updated_at = byId(id).updated_at]_vars

\* getSpending has estimated the open period of an OPEN dispenser
C13_Witness ==
    /\ result.op = "getSpending" /\ result.outcome = "ok" /\ result.usages # <<>>
    /\ Last(result.usages).closed_at = Null
    /\ Last(result.usages).total_spent # NullAmount
    /\ \E i \in 1 .. Len(dispensers) :
          /\ dispensers[i].state = OPEN
          /\ dispensers[i].id \in DOMAIN statusChanges
          /\ statusChanges[dispensers[i].id] = result.usages

(* C14: while a dispenser stays open, the total_spent estimate of its   *)
(* open period that getSpending returns is never less than the estimate  *)
(* an earlier getSpending call returned for it, the wall clock only      *)
(* advancing between the calls.                                          *)
C14_EstimateNeverDecreases ==
    [][result'.op = "getSpending" =>
        \A id \in Ids :
            (/\ find(id) # 0
             /\ byId(id).state = OPEN
             /\ id \in DOMAIN statusChanges
             /\ Last(statusChanges[id]).closed_at = Null
             /\ Last(statusChanges[id]).total_spent # NullAmount
             /\ getSpending(id)) =>
                /\ Last(result'.usages).total_spent # NullAmount
                /\ Last(result'.usages).total_spent[1] >=
                       Last(statusChanges[id]).total_spent[1]]_vars

\* getSpending has answered at least twice for the same open period, the
\* clock having advanced since the period was opened: the running total,
\* to which every call adds its estimate, exceeds the positive estimate
C14_Witness ==
    /\ result.op = "getSpending" /\ result.outcome = "ok" /\ Len(result.usages) = 1
    /\ Last(result.usages).closed_at = Null
    /\ Last(result.usages).total_spent # NullAmount
    /\ Last(result.usages).total_spent[1] > 0
    /\ result.amount[1] > Last(result.usages).total_spent[1]

\* the ledger of a dispenser opened once at t0 and not closed since
openedOnce(id, t0) ==
    /\ id \in DOMAIN statusChanges
    /\ Len(statusChanges[id]) = 1
    /\ statusChanges[id][1].opened_at = t0
    /\ statusChanges[id][1].closed_at = Null

\* the one period of a dispenser opened at t0 and closed at t1
roundTrip(id, t0, t1) ==
    [opened_at |-> t0, closed_at |-> t1, flow_volume |-> byId(id).flow_volume,
     total_spent |-> Amount(calculateTotalSpent(t0, t1, byId(id).flow_volume))]

(* C15: on a freshly created dispenser, opening at T0, closing at        *)
(* T1 > T0 and then calling getSpending returns usages with exactly one  *)
(* period, with opened_at = T0, closed_at = T1 and total_spent =         *)
(* calculateTotalSpent(T0, T1, flow_volume). Stated step by step: the    *)
(* open of a dispenser with no ledger leaves the one open period of T0;  *)
(* the close of that ledger at T1 > T0 leaves the one period of the      *)
(* round trip; getSpending of that ledger returns it.                    *)
C15_OpenCloseGetSpendingRoundTrip ==
    [][\A id \in storeIds :
        /\ (result'.op = "changeDispenserStatus" /\ byId(id).state = CLOSE
               /\ id \notin DOMAIN statusChanges) =>
               \A t0 \in Times :
                   changeDispenserStatus(id, OPEN, t0) =>
                       /\ result'.outcome = "ok"
                       /\ dispensers'[find(id)].state = OPEN
                       /\ openedOnce(id, t0)'
        /\ (result'.op = "changeDispenserStatus" /\ byId(id).state = OPEN) =>
               \A t0, t1 \in Times :
                   (t1 > t0 /\ openedOnce(id, t0) /\ changeDispenserStatus(id, CLOSE, t1)) =>
                       /\ result'.outcome = "ok"
                       /\ dispensers'[find(id)].state = CLOSE
                       /\ statusChanges'[id] = <<roundTrip(id, t0, t1)>>
        /\ (result'.op = "getSpending" /\ byId(id).state = CLOSE
               /\ id \in DOMAIN statusChanges) =>
               \A t0, t1 \in Times :
                   (t1 > t0 /\ statusChanges[id] = <<roundTrip(id, t0, t1)>>
                      /\ getSpending(id)) =>
                       /\ result'.outcome = "ok"
                       /\ result'.usages = <<roundTrip(id, t0, t1)>>]_vars

\* getSpending has returned the one period of a round trip, opened at 0 and
\* closed at MaxTime, with nothing but the round trip spent on the dispenser
C15_Witness ==
    /\ result.op = "getSpending" /\ result.outcome = "ok" /\ Len(result.usages) = 1
    /\ result.usages[1].opened_at = 0
    /\ result.usages[1].closed_at = MaxTime
    /\ result.usages[1].total_spent = result.amount
    /\ result.amount[1] > 0

\* a request body of PUT /dispenser/:id/status that carries both fields
present(status, updated_at) == status.type = "string" /\ updated_at.type = "string"

C17_PostDispenserResponses ==
    [][response'.route = POST =>
        \A flow_volume \in FlowBodyInputs :
            postDispenser(flow_volume) =>
                IF flow_volume.type = "number" /\ flow_volume.val > 0
                THEN /\ response'.status = 200 /\ response'.kind = "dispenser"
                     /\ response'.flow_volume = flow_volume.val
                     /\ Len(dispensers') = Len(dispensers) + 1
                     /\ \A i \in 1 .. Len(dispensers) : dispensers'[i] = dispensers[i]
                     /\ Last(dispensers').id = response'.id
                     /\ Last(dispensers').flow_volume = flow_volume.val
                     /\ response'.id \notin storeIds
                ELSE /\ response'.status = 400 /\ response'.kind = "error"
                     /\ UNCHANGED <<dispensers, statusChanges, totalSpentPerDispenser>>]_vars

\* a POST has created the second dispenser of the store and was answered 200
C17_Witness ==
    /\ response.route = POST /\ response.status = 200
    /\ Len(dispensers) = 2 /\ dispensers[2].id = response.id

(* C18: changeDispenserStatus validates in the order lookup, status,     *)
(* timestamp, same state: for a dispenser of the store, an invalid state *)
(* fails with INVALID_DISPENSER_STATUS even when the timestamp is        *)
(* unparseable too, and an unparseable timestamp with a valid state      *)
(* fails with INVALID_DATE_FORMAT even when that state is the current    *)
(* one.                                                                  *)
C18_ValidationOrder ==
    [][result'.op = "changeDispenserStatus" =>
        \A id \in storeIds :
            /\ \A s \in StateInputs \ DispenserState, t \in DateInputs :
                   changeDispenserStatus(id, s, t) =>
                       result'.outcome = INVALID_DISPENSER_STATUS
            /\ \A s \in DispenserState :
                   changeDispenserStatus(id, s, InvalidDate) =>
                       result'.outcome = INVALID_DATE_FORMAT]_vars

\* a call with a valid state and an unparseable timestamp has failed on a
\* store whose dispensers are OPEN and CLOSE, so that the state it asked for
\* was the current state of one of them
C18_Witness ==
    /\ result.op = "changeDispenserStatus" /\ result.outcome = INVALID_DATE_FORMAT
    /\ Len(dispensers) = 2
    /\ dispensers[1].state = OPEN /\ dispensers[2].state = CLOSE

(* C19: a changeDispenserStatus call that fails with                    *)
(* DISPENSER_NOT_FOUND, INVALID_DISPENSER_STATUS or INVALID_DATE_FORMAT  *)
(* changes nothing: every dispenser's state and updated_at, every        *)
(* ledger and every running total are as before.                         *)
C19_ValidationFailureChangesNothing ==
    [][(/\ result'.op = "changeDispenserStatus"
        /\ result'.outcome \in {DISPENSER_NOT_FOUND, INVALID_DISPENSER_STATUS,
                                 INVALID_DATE_FORMAT}) =>
            UNCHANGED <<dispensers, statusChanges, totalSpentPerDispenser>>]_vars

\* a call has failed with an invalid status on a store that holds an OPEN
\* dispenser with a ledger and a running total
C19_Witness ==
    /\ result.op = "changeDispenserStatus" /\ result.outcome = INVALID_DISPENSER_STATUS
    /\ \E i \in 1 .. Len(dispensers) :
          /\ dispensers[i].state = OPEN
          /\ dispensers[i].id \in DOMAIN statusChanges
          /\ dispensers[i].id \in DOMAIN totalSpentPerDispenser

(* C20: every changeDispenserStatus call that returns success: true     *)
(* returns the stored dispenser, whose state is the requested state and  *)
(* whose updated_at is the supplied timestamp, and the requested state   *)
(* differed from the dispenser's state before the call.                  *)
C20_SuccessReturnsChangedDispenser ==
    [][(result'.op = "changeDispenserStatus" /\ result'.outcome = "ok") =>
        \A id \in Ids, s \in StateInputs, t \in DateInputs :
            changeDispenserStatus(id, s, t) =>
                /\ find(id) # 0
                /\ result'.dispenser = dispensers'[find(id)]
                /\ result'.dispenser.id = id
                /\ result'.dispenser.state = s
                /\ result'.dispenser.updated_at = t
                /\ byId(id).state # s]_vars

\* a call has succeeded in opening the second dispenser of the store with a
\* timestamp that is neither the clock reading nor its updated_at of before
C20_Witness ==
    /\ result.op = "changeDispenserStatus" /\ result.outcome = "ok"
    /\ Len(dispensers) = 2 /\ result.dispenser = dispensers[2]
    /\ result.dispenser.state = OPEN
    /\ result.dispenser.updated_at = MaxTime /\ now = 0

\* the ledger of a dispenser, empty when it has none
ledgerOf(id) == IF id \in DOMAIN statusChanges THEN statusChanges[id] ELSE <<>>

(* C21: a successful changeDispenserStatus(id, OPEN, t) appends exactly  *)
(* one usage period to the ledger of that dispenser, with opened_at = t, *)
(* no closed_at, no total_spent and the dispenser's flow_volume; every   *)
(* earlier period and the running total are as before.                   *)
C21_OpenAppendsOnePeriod ==
    [][(result'.op = "changeDispenserStatus" /\ result'.outcome = "ok") =>
        \A id \in storeIds, t \in Times :
            (byId(id).state = CLOSE /\ changeDispenserStatus(id, OPEN, t)) =>
                /\ id \in DOMAIN statusChanges'
                /\ statusChanges'[id] =
                       Append(ledgerOf(id),
                              [opened_at |-> t, closed_at |-> Null,
                               flow_volume |-> byId(id).flow_volume,
                               total_spent |-> NullAmount])
                /\ totalSpentPerDispenser' = totalSpentPerDispenser]_vars

\* an open has succeeded on a dispenser that already had a period and a
\* running total
C21_Witness ==
    /\ result.op = "changeDispenserStatus" /\ result.outcome = "ok"
    /\ result.dispenser.state = OPEN
    /\ Len(ledgerOf(result.dispenser.id)) = 2
    /\ result.dispenser.id \in DOMAIN totalSpentPerDispenser

(* C22: a close only completes an open period. Once a usage period has *)
(* a closed_at, no later step changes its closed_at or its total_spent,  *)
(* and a changeDispenserStatus step on a dispenser whose last period is  *)
(* already closed does not increase its running total again.             *)
C22_ClosedPeriodIsFinal ==
    [][\A id \in DOMAIN statusChanges :
        /\ \A k \in 1 .. Len(statusChanges[id]) :
               statusChanges[id][k].closed_at # Null =>
                   /\ statusChanges'[id][k].closed_at = statusChanges[id][k].closed_at
                   /\ statusChanges'[id][k].total_spent = statusChanges[id][k].total_spent
        /\ (result'.op = "changeDispenserStatus"
               /\ Last(statusChanges[id]).closed_at # Null) =>
               (id \in DOMAIN totalSpentPerDispenser' /\ totalSpentPerDispenser'[id] = totalOf(id))]_vars

(* C23: in every reachable state, every usage period that has a         *)
(* closed_at has it strictly greater than its opened_at.                 *)
C23_ClosedAfterOpened ==
    \A id \in DOMAIN statusChanges :
        \A k \in 1 .. Len(statusChanges[id]) :
            statusChanges[id][k].closed_at # Null =>
                statusChanges[id][k].closed_at > statusChanges[id][k].opened_at

\* the second dispenser of the store has a closed period
C23_Witness ==
    /\ Len(dispensers) = 2
    /\ dispensers[2].id \in DOMAIN statusChanges
    /\ Last(statusChanges[dispensers[2].id]).closed_at # Null

(* C24: getSpending is read-only with respect to the running total.    *)
(* For an OPEN dispenser, a getSpending call that directly follows a     *)
(* getSpending call for the same dispenser, the clock not having moved   *)
(* and no other call having come between, returns the same amount and    *)
(* leaves the running totals as they were; and a close that succeeds     *)
(* adds the period's final total_spent, and nothing else, to the running *)
(* total.                                                                *)
C24_GetSpendingReadOnly ==
    [][\A id \in storeIds :
        /\ (/\ result.op = "getSpending" /\ result.outcome = "ok"
            /\ result'.op = "getSpending"
            /\ byId(id).state = OPEN
            /\ result.usages # <<>> /\ result.usages = ledgerOf(id)
            /\ (\A other \in storeIds \ {id} : ledgerOf(other) # result.usages)
            /\ getSpending(id)) =>
                /\ result'.amount = result.amount
                /\ totalSpentPerDispenser' = totalSpentPerDispenser
        /\ (/\ result'.op = "changeDispenserStatus" /\ result'.outcome = "ok"
            /\ byId(id).state = OPEN
            /\ id \in DOMAIN statusChanges
            /\ (\E t \in Times : changeDispenserStatus(id, CLOSE, t))) =>
                /\ id \in DOMAIN totalSpentPerDispenser'
                /\ Last(statusChanges'[id]).total_spent # NullAmount
                /\ totalSpentPerDispenser'[id] =
                       totalOf(id) + Last(statusChanges'[id]).total_spent[1]]_vars

(* C25: a status-change request that the manager rejects with          *)
(* INVALID_DATE_ORDER is answered by PUT /dispenser/:id/status with      *)
(* status 400 and the error message, not with 500.                       *)
C25_DateOrderAnswered400 ==
    (response.route = PUT /\ result.op = "changeDispenserStatus"
        /\ result.outcome = INVALID_DATE_ORDER) =>
            /\ response.status = 400
            /\ response.kind = "error"
            /\ response.text = INVALID_DATE_ORDER

(* C26: in every reachable state and for every dispenser, the state is *)
(* OPEN if and only if the dispenser has a non-empty ledger whose last   *)
(* period has no closed_at.                                              *)
C26_OpenIffLastPeriodOpen ==
    \A i \in 1 .. Len(dispensers) :
        dispensers[i].state = OPEN <=>
            /\ ledgerOf(dispensers[i].id) # <<>>
            /\ Last(ledgerOf(dispensers[i].id)).closed_at = Null

\* all that the manager holds of one dispenser
held(id) == <<byId(id), ledgerOf(id), totalOf(id)>>

(* C27: operations are isolated per dispenser. A changeDispenserStatus  *)
(* or getSpending call on dispenser A, whether it succeeds or fails,     *)
(* leaves the state, updated_at, usage periods and running total of      *)
(* every other dispenser B as they were.                                 *)
C27_OtherDispensersUntouched ==
    [][(/\ result'.op \in {"changeDispenserStatus", "getSpending"}
        /\ <<dispensers, statusChanges, totalSpentPerDispenser>>' #
              <<dispensers, statusChanges, totalSpentPerDispenser>>) =>
        \A A \in Ids :
            \/ \A B \in storeIds \ {A} : held(B)' = held(B)
            \/ /\ \A s \in StateInputs, t \in DateInputs : ~changeDispenserStatus(A, s, t)
               /\ ~getSpending(A)]_vars

\* a call has changed the second dispenser of the store while the first one
\* is OPEN with a ledger and a running total
C27_Witness ==
    /\ result.op = "changeDispenserStatus" /\ result.outcome = "ok"
    /\ Len(dispensers) = 2 /\ result.dispenser = dispensers[2]
    /\ dispensers[1].state = OPEN
    /\ dispensers[1].id \in DOMAIN totalSpentPerDispenser

\* t is later than every timestamp the ledger of the dispenser holds
laterThanAll(id, t) ==
    \A k \in 1 .. Len(ledgerOf(id)) :
        /\ t > ledgerOf(id)[k].opened_at
        /\ ledgerOf(id)[k].closed_at # Null => t > ledgerOf(id)[k].closed_at

\* the state a dispenser is not in
opposite(state) == IF state = OPEN THEN CLOSE ELSE OPEN

C29_SpendNeverNegative ==
    /\ \A id \in DOMAIN statusChanges :
          \A k \in 1 .. Len(statusChanges[id]) :
              statusChanges[id][k].total_spent # NullAmount =>
                  statusChanges[id][k].total_spent[1] >= 0
    /\ (result.op = "getSpending" /\ result.outcome = "ok") => result.amount[1] >= 0

====
